---- MODULE Spec2Model ----
(***************************************************************************)
(* Routing and orchestration layer of the multi-agent hub                  *)
(* (app/graph/workflow.py, app/agents/cicp_agent.py, app/mcp/server.py,    *)
(* app/utils/token_counter.py).                                            *)
(*                                                                         *)
(* Text is modelled as a sequence of characters where the code inspects    *)
(* characters (lower(), strip(), startswith()), and by the set of keyword  *)
(* groups it hits where the code only asks "any(kw in q ...)".             *)
(***************************************************************************)
EXTENDS Integers, Sequences, FiniteSets, TLC

(***************************************************************************)
(* Generic sequence helpers                                                *)
(***************************************************************************)
Range(s) == {s[i] : i \in 1..Len(s)}

SeqsUpTo(S, n) == UNION {[1..k -> S] : k \in 0..n}

\* list(dict.fromkeys(xs)): first occurrence of every element, in order.
Dedup(s) ==
    LET keep[i \in 0..Len(s)] ==
            IF i = 0 THEN <<>>
            ELSE IF s[i] \in Range(keep[i-1]) THEN keep[i-1]
                 ELSE Append(keep[i-1], s[i])
    IN keep[Len(s)]

NoDuplicates(s) == \A i, j \in 1..Len(s) : i # j => s[i] # s[j]

(***************************************************************************)
(* Characters: str.lower(), str.strip(), str.startswith()                  *)
(***************************************************************************)
LowerChar(c) ==
    CASE c = "R" -> "r"
      [] c = "A" -> "a"
      [] c = "G" -> "g"
      [] OTHER -> c

Lower(t) == [i \in 1..Len(t) |-> LowerChar(t[i])]

IsSpace(c) == c = " "

RECURSIVE LStrip(_)
LStrip(t) == IF t # <<>> /\ IsSpace(Head(t)) THEN LStrip(Tail(t)) ELSE t

RECURSIVE RStrip(_)
RStrip(t) ==
    IF t # <<>> /\ IsSpace(t[Len(t)]) THEN RStrip(SubSeq(t, 1, Len(t) - 1)) ELSE t

Strip(t) == RStrip(LStrip(t))

StartsWith(t, p) == Len(t) >= Len(p) /\ SubSeq(t, 1, Len(p)) = p

(***************************************************************************)
(* Agent vocabulary and file extensions                                    *)
(***************************************************************************)
VALID_AGENTS ==
    {"general", "rag", "multimodal", "nasa", "weather", "traffic",
     "sql", "viz", "cicp", "ida", "fhir", "banking"}

IMAGE_EXTS == {".png", ".jpg", ".jpeg", ".gif", ".webp", ".bmp"}
DOC_EXTS == {".txt", ".md", ".pdf", ".csv", ".json", ".docx", ".xlsx"}

\* file_path is None (or empty): "if file_path:" is false.
NoFile == [id |-> "none", suffix |-> ""]

\* Path(file_path).suffix.lower(): upload names may carry any case.
SuffixLower(f) ==
    CASE f.suffix = ".PNG" -> ".png"
      [] f.suffix = ".PDF" -> ".pdf"
      [] OTHER -> f.suffix

(***************************************************************************)
(* Queries.  text: the characters of the message; kw: the keyword sets of  *)
(* _keyword_fallback the lower-cased text hits; hints: the claim-agent     *)
(* phrase sets (_POLICE_REPORT_HINTS, _CLAIM_FORM_HINTS,                   *)
(* _DAMAGE_PHOTO_HINTS, _SKIP_POLICE_HINTS) it hits.                       *)
(***************************************************************************)
MkQuery(text, kw, hints) == [text |-> text, kw |-> kw, hints |-> hints]

\* q = query.lower().strip()
Normalized(q) == Strip(Lower(q.text))

StartsWithRagBare(q) == StartsWith(Normalized(q), <<"r", "a", "g">>)

\* q.startswith("rag ") or q.startswith("rag:")
HasRagPrefix(q) ==
    \/ StartsWith(Normalized(q), <<"r", "a", "g", " ">>)
    \/ StartsWith(Normalized(q), <<"r", "a", "g", ":">>)

(***************************************************************************)
(* Semantic classifier (_llm_classify).  The hosted model is an input: a   *)
(* transport failure, a reply that is not JSON, a JSON value that is not   *)
(* an array, or an array of raw strings.                                   *)
(***************************************************************************)
LlmFail(kind) == [kind |-> kind, items |-> <<>>]
LlmArray(items) == [kind |-> "array", items |-> items]

\* str(a).lower().strip() on one array element
NormName(raw) ==
    CASE raw = "CICP" -> "cicp"
      [] raw = " rag " -> "rag"
      [] raw = "Multimodal" -> "multimodal"
      [] OTHER -> raw

\* add_tokens(response) runs as soon as the model answered, before parsing.
LlmAnswered(llm) == llm.kind # "transport"

LlmRaisesOnEmpty(llm) == llm.kind # "array" \/ llm.items = <<>>

\* json.loads raised, or the parsed value is not a list (ValueError), or the
\* call itself raised.
LlmRaises(llm) == llm.kind # "array"

LlmAgents(llm) == [i \in 1..Len(llm.items) |-> NormName(llm.items[i])]

(***************************************************************************)
(* Keyword fallback (_keyword_fallback): one test per keyword set, in the  *)
(* order of the if-statements.                                             *)
(***************************************************************************)
KW_ORDER_VizBeforeSql ==
    <<"nasa", "weather", "traffic", "viz", "sql", "rag", "cicp", "ida", "banking">>

KW_ORDER ==
    <<"nasa", "weather", "traffic", "sql", "viz", "rag", "cicp", "ida", "banking">>

KeywordFallback(q) ==
    LET InKw(a) == a \in q.kw
        hits == SelectSeq(KW_ORDER, InKw)
    IN IF hits = <<>> THEN <<"general">> ELSE hits

(***************************************************************************)
(* classify_agents                                                         *)
(***************************************************************************)
\* The same pre-filter without the lower-casing of the suffix.
FilePrefilterCaseSensitive(f) ==
    IF f = NoFile THEN <<>>
    ELSE IF f.suffix \in IMAGE_EXTS THEN <<"multimodal">>
    ELSE IF f.suffix \in DOC_EXTS THEN <<"rag">>
    ELSE <<>>

\* File-based routing (deterministic pre-filter)
FilePrefilter(f) ==
    IF f = NoFile THEN <<>>
    ELSE IF SuffixLower(f) \in IMAGE_EXTS THEN <<"multimodal">>
    ELSE IF SuffixLower(f) \in DOC_EXTS THEN <<"rag">>
    ELSE <<>>

KeepAll(s) == s

\* agents = [a for a in agents if a in _VALID_AGENTS]
KeepValid(s) == LET Ok(a) == a \in VALID_AGENTS IN SelectSeq(s, Ok)

DropNothing(s) == s

\* if "cicp" in agents: drop multimodal and rag
DropForCicp(s) ==
    IF "cicp" \in Range(s)
    THEN LET Ok(a) == a \notin {"multimodal", "rag"} IN SelectSeq(s, Ok)
    ELSE s

\* if "ida" in agents: drop multimodal
DropForIda(s) ==
    IF "ida" \in Range(s)
    THEN LET Ok(a) == a # "multimodal" IN SelectSeq(s, Ok)
    ELSE s

\* if not agents: agents.append("general")
OrGeneral(s) == IF s = <<>> THEN <<"general">> ELSE s

\* The candidate list before the clean-up steps.
Candidates(q, f, llm) ==
    FilePrefilter(f) \o (IF LlmRaises(llm) THEN KeywordFallback(q) ELSE LlmAgents(llm))

\* The whole call: the agents returned, and which strategies were invoked.
ClassifyRun(q, f, llm) ==
    IF HasRagPrefix(q)
    THEN [agents |-> <<"rag">>, llmCalled |-> FALSE, fallbackUsed |-> FALSE,
          usage |-> FALSE]
    ELSE [agents |-> OrGeneral(DropForIda(DropForCicp(KeepValid(
                         Dedup(Candidates(q, f, llm)))))),
          llmCalled |-> TRUE,
          fallbackUsed |-> LlmRaises(llm),
          usage |-> LlmAnswered(llm)]

ClassifyAgents(q, f, llm) == ClassifyRun(q, f, llm).agents

(***************************************************************************)
(* Claims agent (cicp_agent.py): Session Workflow State and invoke()       *)
(***************************************************************************)
HintGroups == {"police", "claim", "damage", "skip"}

\* The record created on first reference and written back after a successful run.
\* No "_last_ambiguous_image" key: session.get() then yields None.
EmptySession ==
    [claim_form |-> NoFile, damage_image |-> NoFile, police_report |-> NoFile,
     police_report_asked |-> FALSE, police_report_skipped |-> FALSE,
     last_ambiguous |-> NoFile]

\* The same with the extension consulted before the text.
ClassifyUploadExtensionFirst(f, q) ==
    IF SuffixLower(f) \in DOC_EXTS THEN "claim_form"
    ELSE IF "police" \in q.hints THEN "police_report"
    ELSE IF "claim" \in q.hints THEN "claim_form"
    ELSE IF "damage" \in q.hints THEN "damage_image"
    ELSE "None"

\* _classify_upload: text hints first, then the extension.
ClassifyUpload(f, q) ==
    IF "police" \in q.hints THEN "police_report"
    ELSE IF "claim" \in q.hints THEN "claim_form"
    ELSE IF "damage" \in q.hints THEN "damage_image"
    ELSE IF SuffixLower(f) \in DOC_EXTS THEN "claim_form"
    ELSE "None"

AfterSkipCheckNever(sess, q, f) == sess

AfterSkipCheckAnyFile(sess, q, f) ==
    IF sess.police_report_asked /\ ~sess.police_report_skipped /\ "skip" \in q.hints
    THEN [sess EXCEPT !.police_report_skipped = TRUE]
    ELSE sess

AfterSkipCheckUnasked(sess, q, f) ==
    IF f = NoFile /\ "skip" \in q.hints
    THEN [sess EXCEPT !.police_report_skipped = TRUE]
    ELSE sess

\* "Check if user wants to skip police report"
AfterSkipCheck(sess, q, f) ==
    IF /\ sess.police_report_asked
       /\ ~sess.police_report_skipped
       /\ f = NoFile
       /\ "skip" \in q.hints
    THEN [sess EXCEPT !.police_report_skipped = TRUE]
    ELSE sess

\* "Classify the current upload (if any)"
IsAmbiguousUpload(f, q) ==
    f # NoFile /\ ClassifyUpload(f, q) = "None" /\ SuffixLower(f) \in IMAGE_EXTS

\* The same with the stash dropped whenever an upload is filed in a slot.
AfterUploadClearsStash(sess, q, f) ==
    IF f = NoFile THEN sess
    ELSE CASE ClassifyUpload(f, q) = "claim_form" ->
                 [sess EXCEPT !.claim_form = f, !.last_ambiguous = NoFile]
           [] ClassifyUpload(f, q) = "damage_image" ->
                 [sess EXCEPT !.damage_image = f, !.last_ambiguous = NoFile]
           [] ClassifyUpload(f, q) = "police_report" ->
                 [sess EXCEPT !.police_report = f, !.last_ambiguous = NoFile]
           [] OTHER -> IF SuffixLower(f) \in IMAGE_EXTS
                       THEN [sess EXCEPT !.last_ambiguous = f]
                       ELSE sess

AfterUpload(sess, q, f) ==
    IF f = NoFile THEN sess
    ELSE CASE ClassifyUpload(f, q) = "claim_form" -> [sess EXCEPT !.claim_form = f]
           [] ClassifyUpload(f, q) = "damage_image" -> [sess EXCEPT !.damage_image = f]
           [] ClassifyUpload(f, q) = "police_report" -> [sess EXCEPT !.police_report = f]
           [] OTHER -> IF SuffixLower(f) \in IMAGE_EXTS
                       THEN [sess EXCEPT !.last_ambiguous = f]
                       ELSE sess

AfterClarifyKeepsStash(sess, q, f) ==
    IF f # NoFile \/ sess.last_ambiguous = NoFile THEN sess
    ELSE IF "police" \in q.hints THEN [sess EXCEPT !.police_report = sess.last_ambiguous]
    ELSE IF "claim" \in q.hints THEN [sess EXCEPT !.claim_form = sess.last_ambiguous]
    ELSE IF "damage" \in q.hints THEN [sess EXCEPT !.damage_image = sess.last_ambiguous]
    ELSE sess

\* "Re-classify from message alone (no new file, user clarified)"
AfterClarify(sess, q, f) ==
    IF f # NoFile \/ sess.last_ambiguous = NoFile THEN sess
    ELSE IF "police" \in q.hints
         THEN [sess EXCEPT !.police_report = sess.last_ambiguous,
                           !.last_ambiguous = NoFile]
    ELSE IF "claim" \in q.hints
         THEN [sess EXCEPT !.claim_form = sess.last_ambiguous,
                           !.last_ambiguous = NoFile]
    ELSE IF "damage" \in q.hints
         THEN [sess EXCEPT !.damage_image = sess.last_ambiguous,
                           !.last_ambiguous = NoFile]
    ELSE sess

\* The session record when the prompts are chosen (line 541).
Collected(sess, q, f) == AfterClarify(AfterUpload(AfterSkipCheck(sess, q, f), q, f), q, f)

HasForm(c) == c.claim_form # NoFile
HasImage(c) == c.damage_image # NoFile
HasPolice(c) == c.police_report # NoFile

\* The same without the police-report question.
PromptKindWithoutPoliceQuestion(sess, q, f) ==
    LET c == Collected(sess, q, f) IN
    IF IsAmbiguousUpload(f, q) THEN "ambiguous"
    ELSE IF ~HasForm(c) /\ ~HasImage(c) THEN "please_upload"
    ELSE IF HasForm(c) /\ ~HasImage(c) THEN "need_image"
    ELSE IF ~HasForm(c) /\ HasImage(c) THEN "need_form"
    ELSE "pipeline"

\* The prompt returned before the pipeline, or "pipeline" when it runs.
PromptKind(sess, q, f) ==
    LET c == Collected(sess, q, f) IN
    IF IsAmbiguousUpload(f, q) THEN "ambiguous"
    ELSE IF ~HasForm(c) /\ ~HasImage(c) THEN "please_upload"
    ELSE IF HasForm(c) /\ ~HasImage(c) THEN "need_image"
    ELSE IF ~HasForm(c) /\ HasImage(c) THEN "need_form"
    ELSE IF ~HasPolice(c) /\ ~c.police_report_skipped THEN "police_prompt"
    ELSE "pipeline"

CollectSessionAsking(sess, q, f) ==
    [Collected(sess, q, f) EXCEPT !.police_report_asked = TRUE]

\* The same without the write of police_report_asked.
CollectSessionNotAsking(sess, q, f) ==
    IF IsAmbiguousUpload(f, q) THEN AfterUpload(AfterSkipCheck(sess, q, f), q, f)
    ELSE Collected(sess, q, f)

\* The session record invoke() leaves behind when it returns a prompt or
\* reaches its first await.
CollectSession(sess, q, f) ==
    LET c == Collected(sess, q, f) IN
    IF IsAmbiguousUpload(f, q) THEN AfterUpload(AfterSkipCheck(sess, q, f), q, f)
    ELSE IF PromptKind(sess, q, f) = "police_prompt"
         THEN [c EXCEPT !.police_report_asked = TRUE]
    ELSE c

(***************************************************************************)
(* Token accumulator (token_counter.py)                                    *)
(***************************************************************************)
ZeroTokens == [input |-> 0, output |-> 0]

\* _accumulator["input"] += inp; _accumulator["output"] += out
AddTokens(a, u) == [input |-> a.input + u.input, output |-> a.output + u.output]

\* get_totals(): the two counters and their sum
Totals(a) ==
    [input_tokens |-> a.input, output_tokens |-> a.output,
     total_tokens |-> a.input + a.output]

(***************************************************************************)
(* Orchestrator (workflow.py): responses and Conversation Memory           *)
(***************************************************************************)
\* What one agent call hands back: a text, or an exception.
Returned(out) == [kind |-> "returned", out |-> out]
Raised == [kind |-> "raised", out |-> "exception"]

\* f"⚠ {agent_name} agent error: {exc}"
Warning(name) == [kind |-> "warning", by |-> name, marker |-> FALSE]

\* A reply of the claims agent; marker: the text contains "CICP" or
\* "Car Insurance Claim Processing".
\* Every reply but the model-written decision starts with
\* a fixed header that contains "CICP" (cicp_agent.py lines 513, 549, 572, 581,
\* 593, 660).
CicpReply(kind, marker) == [kind |-> kind, by |-> "cicp", marker |-> marker]

\* The text of any other agent.
AgentText(name, marker) == [kind |-> "text", by |-> name, marker |-> marker]

CallAgentNoCatch(name, raw) == raw

\* _call_agent: try dispatch(...) except Exception -> warning text.  An exception
\* of the handler reaches it as the RuntimeError dispatch() raises from the
\* {"error": ...} that mcp_server.call_tool made of it.
CallAgent(name, raw) ==
    IF raw.kind = "raised" THEN Returned(Warning(name)) ELSE raw

\* name.upper() in the section header
UpperName(name) == IF name = "cicp" THEN "CICP" ELSE name

MergeResultsReversed(names, results) ==
    IF Len(results) = 1
    THEN [merged |-> FALSE, parts |-> <<[header |-> "", body |-> results[1].out]>>]
    ELSE [merged |-> TRUE,
          parts |-> [i \in 1..Len(results) |->
                        [header |-> UpperName(names[Len(results) + 1 - i]),
                         body |-> results[Len(results) + 1 - i].out]]]

\* One agent: its raw output.  Several: one headed section per result.
MergeResults(names, results) ==
    IF Len(results) = 1
    THEN [merged |-> FALSE, parts |-> <<[header |-> "", body |-> results[1].out]>>]
    ELSE [merged |-> TRUE,
          parts |-> [i \in 1..Len(results) |->
                        [header |-> UpperName(names[i]), body |-> results[i].out]]]

\* "CICP" in content or "Car Insurance Claim Processing" in content
HasMarker(content) ==
    \E i \in 1..Len(content.parts) :
        content.parts[i].header = "CICP" \/ content.parts[i].body.marker

UserMsg(turn, q) == [role |-> "user", turn |-> turn, content |-> q, agents |-> <<>>]
AssistantMsg(turn, resp, called) ==
    [role |-> "assistant", turn |-> turn, content |-> resp, agents |-> called]

\* _append_messages: (existing or []) + (new or [])
AppendMessages(existing, new) == existing \o new

\* history[-n:]
LastN(h, n) == IF Len(h) <= n THEN h ELSE SubSeq(h, Len(h) - n + 1, Len(h))

AnyAssistantHasMarker(h) ==
    \E i \in 1..Len(h) : h[i].role = "assistant" /\ HasMarker(h[i].content)

\* for msg in reversed(history[-10:]): first assistant message decides, then break
RECURSIVE LastAssistantHasMarker(_)
LastAssistantHasMarker(h) ==
    IF h = <<>> THEN FALSE
    ELSE IF h[Len(h)].role = "assistant" THEN HasMarker(h[Len(h)].content)
    ELSE LastAssistantHasMarker(SubSeq(h, 1, Len(h) - 1))

CicpActive(history) == LastAssistantHasMarker(LastN(history, 10))

(***************************************************************************)
(* State                                                                   *)
(***************************************************************************)
VARIABLES
    memory,        \* session_id -> messages of the latest checkpoint (MemorySaver)
    sessionFiles,  \* cicp_agent._session_files
    acc,           \* token_counter._accumulator
    req,           \* the chat requests in flight, one record per slot
    nTurns,        \* chat requests started so far
    mcp,           \* direct tool calls of the claims agent in flight (/mcp/call)
    last,          \* what the latest direct tool call returned, or "pipeline"
                   \* when it is suspended in its pipeline
    lock,          \* token_counter._lock: the set holding its holder, if any
    adder,         \* threads inside add_tokens
    cls            \* one call of classify_agents: inputs and result

vars == <<memory, sessionFiles, acc, req, nTurns, mcp, last, lock, adder, cls>>

Sessions == {"s1", "s2"}
ReqIds == {1, 2}

MaxTurns == 2

Pdf == [id |-> "claim.pdf", suffix |-> ".pdf"]
Jpg == [id |-> "car.jpg", suffix |-> ".jpg"]
Png == [id |-> "scan.PNG", suffix |-> ".PNG"]
Bin == [id |-> "notes.bin", suffix |-> ".bin"]

\* usage_metadata of one model response
Usage == [input |-> 2, output |-> 1]

IdleReq ==
    [pc |-> "idle", session |-> "s1", turn |-> 0, query |-> MkQuery(<<>>, {}, {}),
     file |-> NoFile, hist |-> <<>>, sticky |-> FALSE, agents |-> <<>>,
     calls |-> <<>>, response |-> <<>>, result |-> <<>>,
     \* bookkeeping for the properties, never read by an action:
     own |-> ZeroTokens,      \* tokens added by this request's own model calls
     flowAtStart |-> FALSE,   \* a claims flow was open when the request arrived
     classified |-> <<>>,     \* what classify_agents returned, <<>> if not called
     overlap |-> {}]          \* turns of its session in flight when it arrived

IdleMcp == [st |-> "idle", session |-> "s1", police |-> FALSE]
NoReply == [kind |-> "none", session |-> "s1", flip |-> FALSE]
NoCls == [st |-> "none"]

InitChat ==
    /\ memory = [s \in Sessions |-> <<>>]
    /\ sessionFiles = [s \in Sessions |-> EmptySession]
    /\ acc = ZeroTokens
    /\ req = [r \in ReqIds |-> IdleReq]
    /\ nTurns = 0

McpIds == {1, 2}
MaxTokens == 4

InitTools ==
    /\ mcp = [c \in McpIds |-> IdleMcp]
    /\ last = NoReply

InitRest ==
    /\ InitTools
    /\ lock = {}
    /\ adder = <<>>
    /\ cls = NoCls

Init == InitChat /\ InitRest

(***************************************************************************)
(* Inputs of the chat endpoint                                             *)
(***************************************************************************)
QWeather == MkQuery(<<"w">>, {"weather"}, {})
QClaimForm == MkQuery(<<"x">>, {"cicp"}, {"claim"})
QRagUpload == MkQuery(<<"R", "a", "g", ":", "x">>, {}, {"damage"})

ChatInputs == {<<QWeather, NoFile>>, <<QClaimForm, Pdf>>, <<QRagUpload, Jpg>>}

ChatLlm == {LlmFail("transport"), LlmArray(<<"general">>)}

\* One request at a time, up to three agents per request.
FanInputs == {<<QWeather, NoFile>>, <<QClaimForm, Pdf>>}

FanLlm ==
    {LlmFail("bad_json"), LlmArray(<<"weather", "sql", "viz">>),
     LlmArray(<<"CICP", "weather">>)}

Pending == [kind |-> "pending", out |-> "none"]

(***************************************************************************)
(* run_workflow / orchestrate_node, one action per stretch between awaits  *)
(***************************************************************************)
InFlight(r) == req[r].pc \in {"classify", "dispatch", "gather", "eval"}

\* A claims flow is open: something was collected or asked and no successful
\* pipeline run has reset the record since.
FlowActive(s) == sessionFiles[s] # EmptySession

\* run_workflow up to the classifier's model call: reset_counter(), the
\* checkpoint of the session is loaded, the sticky-session test is made.
Start(r, s, q, f) ==
    /\ req[r].pc \in {"idle", "done", "failed"}
    /\ nTurns' = nTurns + 1
    /\ acc' = ZeroTokens
    /\ req' = [req EXCEPT ![r] =
                 [IdleReq EXCEPT
                    !.pc = IF CicpActive(memory[s]) THEN "dispatch" ELSE "classify",
                    !.session = s, !.turn = nTurns + 1, !.query = q, !.file = f,
                    !.hist = memory[s],
                    !.sticky = CicpActive(memory[s]),
                    !.flowAtStart = FlowActive(s),
                    !.overlap = {req[o].turn : o \in {x \in DOMAIN req :
                                     InFlight(x) /\ req[x].session = s}},
                    !.agents = IF CicpActive(memory[s]) THEN <<"cicp">> ELSE <<>>]]
    /\ UNCHANGED <<memory, sessionFiles, mcp, last, lock, adder, cls>>

\* classify_agents returns; add_tokens(response) if the model answered.
Classify(r, llm) ==
    /\ req[r].pc = "classify"
    /\ LET run == ClassifyRun(req[r].query, req[r].file, llm)
           used == IF run.usage THEN Usage ELSE ZeroTokens
       IN /\ acc' = AddTokens(acc, used)
          /\ req' = [req EXCEPT ![r].pc = "dispatch",
                                ![r].agents = run.agents,
                                ![r].classified = run.agents,
                                ![r].own = AddTokens(@, used)]
    /\ UNCHANGED <<memory, sessionFiles, nTurns, mcp, last, lock, adder, cls>>

\* asyncio.gather starts every call; the claims agent runs up to its prompt
\* or to the first await of its pipeline.
Dispatch(r) ==
    /\ req[r].pc = "dispatch"
    /\ LET s == req[r].session
           kind == PromptKind(sessionFiles[s], req[r].query, req[r].file)
           StartCall(a) ==
               IF a = "cicp" /\ kind # "pipeline"
               THEN [st |-> "done", raw |-> Returned(CicpReply(kind, TRUE)),
                     doneAt |-> 0]
               ELSE [st |-> "run", raw |-> Pending, doneAt |-> 0]
       IN /\ req' = [req EXCEPT ![r].pc = "gather",
                                ![r].calls = [i \in 1..Len(req[r].agents) |->
                                                 StartCall(req[r].agents[i])]]
          /\ sessionFiles' =
                IF "cicp" \in Range(req[r].agents)
                THEN [sessionFiles EXCEPT
                        ![s] = CollectSession(@, req[r].query, req[r].file)]
                ELSE sessionFiles
    /\ UNCHANGED <<memory, acc, nTurns, mcp, last, lock, adder, cls>>

\* The steps of the pipeline that can raise: the three extractions (the third
\* only when a police report was filed), get_vectorstore(), the retriever
\* call, the decision synthesis.
PipelineSteps ==
    {"claim_form", "damage_image", "police_report", "rules_index", "rules_search",
     "decision"}

PipelineFailures == {"none"} \cup PipelineSteps

\* _lookup_rules catches what its retriever raises and returns a placeholder
\* text; every other exception reaches the except-clause of invoke().
SwallowedFailures == {"rules_search"}

\* The reply of a pipeline run in which the step `failed` raised.
PipelineOutcome(failed, marker) ==
    IF failed \in {"none"} \cup SwallowedFailures
    THEN Returned(CicpReply("decision", marker))
    ELSE Returned(CicpReply("cicp_error", TRUE))

\* What a running agent can come back with.
AgentOutcomes(a) ==
    IF a = "cicp"
    THEN {Returned(CicpReply("decision", m)) : m \in BOOLEAN}
            \cup {Returned(CicpReply("cicp_error", TRUE))}
    ELSE {Returned(AgentText(a, FALSE)), Raised}

\* The tokens the model calls of an agent added before it came back.
AgentUsage(raw) == IF raw.kind = "raised" THEN ZeroTokens ELSE Usage

\* A successful run that only emptied the three slots of the record it holds.
AfterPipelineSlotsOnly(files, s, raw) ==
    IF raw.out.kind = "decision"
    THEN [files EXCEPT ![s] = [@ EXCEPT !.claim_form = NoFile,
                                        !.damage_image = NoFile,
                                        !.police_report = NoFile]]
    ELSE files

\* A run that writes the empty record back whatever its outcome.
AfterPipelineAlwaysResets(files, s, raw) == [files EXCEPT ![s] = EmptySession]

\* The pipeline wrote the record back: only after the decision was made.
AfterPipeline(files, s, raw) ==
    IF raw.out.kind = "decision" THEN [files EXCEPT ![s] = EmptySession] ELSE files

\* One agent call comes back (returns or raises).
AgentReturn(r, i, raw) ==
    /\ req[r].pc = "gather"
    /\ i \in 1..Len(req[r].calls)
    /\ req[r].calls[i].st = "run"
    /\ raw \in AgentOutcomes(req[r].agents[i])
    /\ acc' = AddTokens(acc, AgentUsage(raw))
    /\ req' = [req EXCEPT ![r].calls[i] =
                             [st |-> "done", raw |-> raw,
                              \* bookkeeping: its rank among the awaited calls
                              doneAt |-> 1 + Cardinality(
                                  {j \in 1..Len(req[r].calls) :
                                      req[r].calls[j].doneAt > 0})],
                          ![r].own = AddTokens(@, AgentUsage(raw))]
    /\ sessionFiles' =
          IF req[r].agents[i] = "cicp"
          THEN AfterPipeline(sessionFiles, req[r].session, raw)
          ELSE sessionFiles
    /\ UNCHANGED <<memory, nTurns, mcp, last, lock, adder, cls>>

\* gather is complete: merge, append the turn to the checkpointed messages.
Merge(r) ==
    /\ req[r].pc = "gather"
    /\ \A i \in 1..Len(req[r].calls) : req[r].calls[i].st = "done"
    /\ LET results == [i \in 1..Len(req[r].calls) |->
                          CallAgent(req[r].agents[i], req[r].calls[i].raw)]
           called == req[r].agents
           resp == MergeResults(called, results)
       IN IF \E i \in 1..Len(results) : results[i].kind = "raised"
          THEN /\ req' = [req EXCEPT ![r].pc = "failed"]
               /\ UNCHANGED memory
          ELSE /\ req' = [req EXCEPT ![r].pc = "eval", ![r].response = resp]
               /\ memory' = [memory EXCEPT ![req[r].session] =
                               AppendMessages(req[r].hist,
                                   <<UserMsg(req[r].turn, req[r].query),
                                     AssistantMsg(req[r].turn, resp, called)>>)]
    /\ UNCHANGED <<sessionFiles, acc, nTurns, mcp, last, lock, adder, cls>>

EvaluatePropagates(r, evalOk) ==
    /\ req[r].pc = "eval"
    /\ req' = [req EXCEPT ![r].pc = IF evalOk THEN "done" ELSE "failed",
                          ![r].result =
                              IF evalOk
                              THEN [response |-> req[r].response,
                                    agents_called |-> req[r].agents,
                                    token_usage |-> Totals(acc),
                                    evaluation_scores |-> "scorecard"]
                              ELSE <<>>]
    /\ UNCHANGED <<memory, sessionFiles, acc, nTurns, mcp, last, lock, adder, cls>>

\* evaluate_response returned or raised; get_totals(); the result is returned.
Evaluate(r, evalOk) ==
    /\ req[r].pc = "eval"
    /\ req' = [req EXCEPT ![r].pc = "done",
                          ![r].result =
                              [response |-> req[r].response,
                               agents_called |-> req[r].agents,
                               token_usage |-> Totals(acc),
                               evaluation_scores |->
                                   IF evalOk THEN "scorecard" ELSE "empty"]]
    /\ UNCHANGED <<memory, sessionFiles, acc, nTurns, mcp, last, lock, adder, cls>>

\* The chat endpoint serving at most N requests in slots R for sessions S, with
\* the messages and files of I and the classifier model behaving as in L.
ChatNext(R, S, I, L, N) ==
    \/ \E r \in R, s \in S, in \in I : nTurns < N /\ Start(r, s, in[1], in[2])
    \/ \E r \in R, llm \in L : Classify(r, llm)
    \/ \E r \in R : Dispatch(r)
    \/ \E r \in R : \E i \in 1..Len(req[r].calls) :
          \E raw \in AgentOutcomes(req[r].agents[i]) : AgentReturn(r, i, raw)
    \/ \E r \in R : Merge(r)
    \/ \E r \in R, evalOk \in BOOLEAN : Evaluate(r, evalOk)

Next == ChatNext(ReqIds, Sessions, ChatInputs, ChatLlm, MaxTurns)

Spec == Init /\ [][Next]_vars

\* A single client: one request at a time, fan-out to several agents.
NextFanout == ChatNext({1}, {"s1"}, FanInputs, FanLlm, MaxTurns)

SpecFanout == Init /\ [][NextFanout]_vars

\* One client going through a whole claim and beyond it: the claim form, the
\* damage photo, the skip of the police report, then an unrelated question.
MaxStickyTurns == 4

QDamage == MkQuery(<<"x">>, {"cicp"}, {"damage"})
QSkip == MkQuery(<<"x">>, {}, {"skip"})

StickyInputs ==
    {<<QClaimForm, Pdf>>, <<QDamage, Jpg>>, <<QSkip, NoFile>>, <<QWeather, NoFile>>,
     <<QRagUpload, NoFile>>}

StickyLlm == {LlmFail("transport")}

NextSticky == ChatNext({1}, {"s1"}, StickyInputs, StickyLlm, MaxStickyTurns)

SpecSticky == Init /\ [][NextSticky]_vars

(***************************************************************************)
(* The claims agent called as a tool (routes/mcp_routes.py: POST /mcp/call *)
(* -> mcp_server.call_tool("cicp_process") -> cicp_agent.invoke)           *)
(***************************************************************************)
CicpHints == SUBSET HintGroups
CicpFiles == {NoFile, Pdf, Jpg, Png, Bin}

\* invoke() up to its return of a prompt, or to the first await of the pipeline.
McpCall(c, s, q, f) ==
    /\ mcp[c].st = "idle"
    \* the slots are interchangeable: a call takes the lowest free one
    /\ \A d \in McpIds : d < c => mcp[d].st # "idle"
    /\ acc.input + Usage.input <= MaxTokens
    /\ sessionFiles' = [sessionFiles EXCEPT ![s] = CollectSession(@, q, f)]
    /\ IF PromptKind(sessionFiles[s], q, f) = "pipeline"
       THEN mcp' = [mcp EXCEPT ![c] =
                      [st |-> "run", session |-> s,
                       \* has_police_report, read before the first await
                       police |-> HasPolice(Collected(sessionFiles[s], q, f))]]
       ELSE mcp' = mcp
    /\ last' = [kind |-> PromptKind(sessionFiles[s], q, f), session |-> s,
                \* bookkeeping: tells this reply from the one before
                flip |-> ~last.flip]
    /\ UNCHANGED <<memory, acc, req, nTurns, lock, adder, cls>>

\* The pipeline of a call ends: with the decision, or with the error reply.
McpReturn(c, failed) ==
    /\ mcp[c].st = "run"
    /\ failed = "police_report" => mcp[c].police
    /\ LET raw == PipelineOutcome(failed, TRUE)
       IN /\ sessionFiles' = AfterPipeline(sessionFiles, mcp[c].session, raw)
          /\ acc' = AddTokens(acc, AgentUsage(raw))
          /\ last' = [kind |-> raw.out.kind, session |-> mcp[c].session,
                      flip |-> ~last.flip]
    /\ mcp' = [mcp EXCEPT ![c] = IdleMcp]
    /\ UNCHANGED <<memory, req, nTurns, lock, adder, cls>>

NextCicp ==
    \/ \E c \in McpIds, h \in CicpHints, f \in CicpFiles :
          McpCall(c, "s1", MkQuery(<<"x">>, {}, h), f)
    \/ \E c \in McpIds, failed \in PipelineFailures : McpReturn(c, failed)

SpecCicp == Init /\ [][NextCicp]_vars

(***************************************************************************)
(* classify_agents on its own: one call per behaviour, its inputs drawn in *)
(* the initial state.  The history only reaches the hosted model, whose    *)
(* reply is one of the inputs.                                             *)
(***************************************************************************)
MaxLlmLen == 3

\* Message texts: optional leading blank, "rag" in three spellings, then a
\* separator or none, then the rest; and two texts without the word.
ClsTexts ==
    {pad \o word \o sep \o rest :
        pad \in {<<>>, <<" ">>},
        word \in {<<"r", "a", "g">>, <<"R", "a", "g">>, <<"R", "A", "G">>},
        sep \in {<<>>, <<" ">>, <<":">>, <<"s">>},
        rest \in {<<>>, <<"x">>}}
    \cup {<<>>, <<"x", " ", "r", "a", "g", ":">>}

ClsKeywords == {{}, {"rag"}, {"cicp", "weather"}}
ClsFiles == {NoFile, Pdf, Png, Bin}
ClsRawNames == {"weather", "CICP", " rag ", "bogus", "ida"}

ClsLlm ==
    {LlmFail(k) : k \in {"transport", "bad_json", "not_array"}}
    \cup {LlmArray(items) : items \in SeqsUpTo(ClsRawNames, MaxLlmLen)}

InitClassify ==
    /\ InitChat
    /\ InitTools
    /\ lock = {}
    /\ adder = <<>>
    /\ cls \in {[st |-> "called", query |-> MkQuery(t, kw, {}), file |-> f,
                 llm |-> llm]
                   : t \in ClsTexts, kw \in ClsKeywords, f \in ClsFiles,
                     llm \in ClsLlm}

\* The call runs to its return; the model's reply, if any, is counted.
ClassifyCall ==
    /\ cls.st = "called"
    /\ LET run == ClassifyRun(cls.query, cls.file, cls.llm)
       IN /\ cls' = [st |-> "returned", query |-> cls.query, file |-> cls.file,
                     llm |-> cls.llm, run |-> run]
          /\ acc' = IF run.usage THEN AddTokens(acc, Usage) ELSE acc
    /\ UNCHANGED <<memory, sessionFiles, req, nTurns, mcp, last, lock, adder>>

NextClassify == ClassifyCall

SpecClassify == InitClassify /\ [][NextClassify]_vars

(***************************************************************************)
(* classify_agents with the semantic step failing: every combination of    *)
(* keyword sets the text can hit.                                          *)
(***************************************************************************)
FallbackKeywords == SUBSET Range(KW_ORDER)

InitFallback ==
    /\ InitChat
    /\ InitTools
    /\ lock = {}
    /\ adder = <<>>
    /\ cls \in {[st |-> "called", query |-> MkQuery(<<"x">>, kw, {}), file |-> f,
                 llm |-> LlmFail(k)]
                   : kw \in FallbackKeywords, f \in ClsFiles,
                     k \in {"transport", "bad_json", "not_array"}}

SpecFallback == InitFallback /\ [][NextClassify]_vars

(***************************************************************************)
(* The token accumulator under concurrent add_tokens calls, after a        *)
(* reset_counter().  Each "+=" is a read and a write.                      *)
(***************************************************************************)
NAdders == 3

Adders == 1..NAdders

\* usage_metadata of the responses handed to add_tokens; the zero record is
\* a response without usage data.
AdderUsages == {ZeroTokens, [input |-> 1, output |-> 1], Usage}

LockIgnored(holder) == TRUE

\* "with _lock:" is entered only when no thread holds the lock.
CanAcquire(holder) == holder = {}

InitTokens ==
    /\ InitChat
    /\ InitTools
    /\ lock = {}
    /\ cls = NoCls
    /\ adder \in [Adders -> {[pc |-> "idle", usage |-> u, tmp |-> 0,
                              contended |-> FALSE] : u \in AdderUsages}]

\* add_tokens reads the metadata; without any it returns.
Enter(i) ==
    /\ adder[i].pc = "idle"
    /\ adder' = [adder EXCEPT ![i].pc =
                    IF adder[i].usage = ZeroTokens THEN "done" ELSE "wait"]
    /\ UNCHANGED <<memory, sessionFiles, acc, req, nTurns, mcp, last, lock, cls>>

Acquire(i) ==
    /\ adder[i].pc = "wait"
    /\ CanAcquire(lock)
    /\ lock' = {i}
    /\ adder' = [adder EXCEPT ![i].pc = "read_input",
                              \* bookkeeping: another call was waiting too
                              ![i].contended =
                                  \E j \in Adders \ {i} : adder[j].pc = "wait"]
    /\ UNCHANGED <<memory, sessionFiles, acc, req, nTurns, mcp, last, cls>>

\* _accumulator["input"] += inp
ReadInput(i) ==
    /\ adder[i].pc = "read_input"
    /\ adder' = [adder EXCEPT ![i].pc = "write_input", ![i].tmp = acc.input]
    /\ UNCHANGED <<memory, sessionFiles, acc, req, nTurns, mcp, last, lock, cls>>

WriteInput(i) ==
    /\ adder[i].pc = "write_input"
    /\ acc' = [acc EXCEPT !.input = adder[i].tmp + adder[i].usage.input]
    /\ adder' = [adder EXCEPT ![i].pc = "read_output"]
    /\ UNCHANGED <<memory, sessionFiles, req, nTurns, mcp, last, lock, cls>>

\* _accumulator["output"] += out
ReadOutput(i) ==
    /\ adder[i].pc = "read_output"
    /\ adder' = [adder EXCEPT ![i].pc = "write_output", ![i].tmp = acc.output]
    /\ UNCHANGED <<memory, sessionFiles, acc, req, nTurns, mcp, last, lock, cls>>

\* the write, and the release at the end of the with-block
WriteOutput(i) ==
    /\ adder[i].pc = "write_output"
    /\ acc' = [acc EXCEPT !.output = adder[i].tmp + adder[i].usage.output]
    /\ adder' = [adder EXCEPT ![i].pc = "done"]
    /\ lock' = {}
    /\ UNCHANGED <<memory, sessionFiles, req, nTurns, mcp, last, cls>>

NextTokens ==
    \E i \in Adders :
        \/ Enter(i)
        \/ Acquire(i)
        \/ ReadInput(i)
        \/ WriteInput(i)
        \/ ReadOutput(i)
        \/ WriteOutput(i)

SpecTokens == InitTokens /\ [][NextTokens]_vars

(***************************************************************************)
(* Properties of the orchestrator                                          *)
(***************************************************************************)
Routed(r) == req[r].pc \in {"dispatch", "gather", "eval", "done", "failed"}
Answered(r) == req[r].pc \in {"eval", "done"}

\* C1: a request that arrives in a session whose claims flow is open (started,
\* and not closed by a successful pipeline run) is dispatched to exactly
\* <<"cicp">>, whatever its text or file.
C1_ActiveFlowRoutedToCicp ==
    \A r \in ReqIds :
        Routed(r) /\ req[r].flowAtStart => req[r].agents = <<"cicp">>

\* C2: whatever subset of the dispatched agents raises, the request does not
\* fail; the response has one part per dispatched agent, in order: the warning
\* naming the agent where it raised, its own output unchanged where it did
\* not; a response of several agents is merged, with one headed section each.
C2_FanoutIsolatesFailures ==
    \A r \in ReqIds :
        /\ req[r].pc # "failed"
        /\ Answered(r) =>
              /\ Len(req[r].response.parts) = Len(req[r].agents)
              /\ req[r].response.merged = (Len(req[r].agents) > 1)
              /\ \A i \in 1..Len(req[r].agents) :
                    /\ req[r].calls[i].raw.kind = "raised" =>
                          /\ req[r].response.parts[i].body.kind = "warning"
                          /\ req[r].response.parts[i].body.by = req[r].agents[i]
                    /\ req[r].calls[i].raw.kind = "returned" =>
                          req[r].response.parts[i].body = req[r].calls[i].raw.out
                    /\ req[r].response.merged =>
                          req[r].response.parts[i].header = UpperName(req[r].agents[i])

\* Three agents were dispatched, exactly one raised, the request completed.
C2_Witness ==
    \E r \in ReqIds :
        /\ req[r].pc = "done"
        /\ Len(req[r].agents) = 3
        /\ Cardinality({i \in 1..3 : req[r].calls[i].raw.kind = "raised"}) = 1
        /\ Cardinality({i \in 1..3 :
                           req[r].response.parts[i].body.kind = "warning"}) = 1

\* C7: the token totals a request returns are exactly the tokens its own
\* classifier and agent calls added, also with another request in flight.
C7_TotalsAreTheRequestsOwn ==
    \A r \in ReqIds :
        req[r].pc = "done" => req[r].result.token_usage = Totals(req[r].own)

\* The turn of request r is in the memory of its session exactly once, the user
\* message directly followed by its own assistant message.
TurnKept(r) ==
    LET m == memory[req[r].session]
        at == {i \in 1..Len(m) : m[i].turn = req[r].turn}
    IN /\ Cardinality(at) = 2
       /\ \E i \in at :
             /\ i + 1 \in at
             /\ m[i] = UserMsg(req[r].turn, req[r].query)
             /\ m[i + 1] = AssistantMsg(req[r].turn, req[r].response, req[r].agents)

\* C8: two requests of one session that were in flight together have, once
\* both completed, both their turns in the session's memory.
C8_ConcurrentTurnsBothKept ==
    \A r1, r2 \in ReqIds :
        /\ r1 # r2
        /\ req[r1].pc = "done" /\ req[r2].pc = "done"
        /\ req[r1].session = req[r2].session
        /\ req[r1].turn \in req[r2].overlap
        => TurnKept(r1) /\ TurnKept(r2)

\* C9: the step that completes the orchestration of a request appends its two
\* messages to the end of its session's memory and changes nothing else of it.
C9_TurnAppendedAtEnd ==
    [][\A r \in ReqIds :
          req[r].pc = "gather" /\ req'[r].pc = "eval" =>
              /\ memory'[req[r].session] =
                    memory[req[r].session] \o
                        <<UserMsg(req[r].turn, req[r].query),
                          AssistantMsg(req[r].turn, req'[r].response, req[r].agents)>>
              /\ \A o \in Sessions \ {req[r].session} : memory'[o] = memory[o]]_vars

\* The most recent assistant message of a history, as a set (empty if none).
LatestAssistant(h) ==
    {h[i] : i \in {j \in 1..Len(h) :
                      /\ h[j].role = "assistant"
                      /\ \A k \in (j + 1)..Len(h) : h[k].role # "assistant"}}

\* C13: only the most recent assistant turn of the session decides: with the
\* claims marker the agents are exactly [cicp] and classify_agents is not
\* called; without it, also when an older assistant turn has it, the agents
\* are exactly what classify_agents returned.
C13_LatestAssistantTurnDecides ==
    \A r \in ReqIds :
        Routed(r) =>
            IF \E m \in LatestAssistant(req[r].hist) : HasMarker(m.content)
            THEN req[r].agents = <<"cicp">> /\ req[r].classified = <<>>
            ELSE req[r].classified # <<>> /\ req[r].agents = req[r].classified

\* A request arrived after a decision without the marker closed a claim whose
\* earlier replies carried it, and was routed by the classifier.
C13_Witness ==
    \E r \in ReqIds :
        /\ Routed(r)
        /\ \E m \in LatestAssistant(req[r].hist) : ~HasMarker(m.content)
        /\ \E i \in 1..Len(req[r].hist) :
              req[r].hist[i].role = "assistant" /\ HasMarker(req[r].hist[i].content)
        /\ req[r].agents = <<"weather">>
        /\ req[r].classified = <<"weather">>

\* C19: when the evaluation raises, the request still completes: it returns
\* the merged response and the agent list of the orchestration with an empty
\* scorecard, and the session's memory, ending with the turn just appended,
\* is not touched.
C19_EvaluationFailureSwallowed ==
    [][\A r \in ReqIds :
          Evaluate(r, FALSE) =>
              /\ req'[r].pc = "done"
              /\ req'[r].result.response = req[r].response
              /\ req'[r].result.agents_called = req[r].agents
              /\ req'[r].result.evaluation_scores = "empty"
              /\ memory' = memory
              /\ LET m == memory'[req[r].session]
                 IN /\ Len(m) >= 2
                    /\ m[Len(m)] =
                          AssistantMsg(req[r].turn, req[r].response, req[r].agents)]_vars

\* A request of several agents completed with an empty scorecard.
C19_Witness ==
    \E r \in ReqIds :
        /\ req[r].pc = "done"
        /\ req[r].result.evaluation_scores = "empty"
        /\ Len(req[r].agents) = 3
        /\ req[r].result.response = req[r].response
        /\ req[r].response.merged

\* C20: every selected agent is started in the same step; the response exists
\* only once every call has come back; its sections and the reported agent
\* list follow the order classify_agents returned, whatever the order of
\* completion; a single agent's output is the response, without header.
C20_MergeInClassifierOrder ==
    \A r \in ReqIds :
        LET n == Len(req[r].agents) IN
        /\ req[r].pc \in {"gather", "eval", "done"} => Len(req[r].calls) = n
        /\ Answered(r) =>
              /\ \A i \in 1..n : req[r].calls[i].st = "done"
              /\ ~req[r].sticky => req[r].agents = req[r].classified
              /\ Len(req[r].response.parts) = n
              /\ \A i \in 1..n :
                    /\ req[r].response.parts[i].body.by = req[r].agents[i]
                    /\ n > 1 => req[r].response.parts[i].header =
                                    UpperName(req[r].agents[i])
              /\ n = 1 =>
                    /\ ~req[r].response.merged
                    /\ req[r].response.parts[1].header = ""
                    /\ req[r].response.parts[1].body =
                          CallAgent(req[r].agents[1], req[r].calls[1].raw).out
        /\ req[r].pc = "done" => req[r].result.agents_called = req[r].agents

\* Three agents completed in the reverse of the order they were selected in.
C20_Witness ==
    \E r \in ReqIds :
        /\ req[r].pc = "done"
        /\ req[r].classified = <<"weather", "sql", "viz">>
        /\ req[r].calls[1].doneAt = 3 /\ req[r].calls[2].doneAt = 2
        /\ req[r].calls[3].doneAt = 1
        /\ req[r].result.agents_called = <<"weather", "sql", "viz">>
        /\ req[r].response.parts[1].header = "weather"
        /\ req[r].response.parts[3].body.by = "viz"

(***************************************************************************)
(* Properties of the claims agent                                          *)
(***************************************************************************)
\* The turn (q, f) files its upload as ftype.
Files(q, f, ftype) == f # NoFile /\ ClassifyUpload(f, q) = ftype

\* A message with no file that expresses the wish to skip the police report.
SkipMessage(q, f) == f = NoFile /\ "skip" \in q.hints

\* The record after the claim form and the damage image were filed, in either
\* order, starting from the empty record.
Awaiting(form, image) ==
    [EmptySession EXCEPT !.claim_form = form, !.damage_image = image,
                         !.police_report_asked = TRUE]

\* The tool calls on session "s1" that satisfy In(q, f) all satisfy Then(q, f).
CallsWith(In(_, _), Then(_, _)) ==
    \A h \in CicpHints, f \in CicpFiles :
        In(MkQuery(<<"x">>, {}, h), f) =>
            \A c \in McpIds :
                McpCall(c, "s1", MkQuery(<<"x">>, {}, h), f) =>
                    Then(MkQuery(<<"x">>, {}, h), f)

\* C4: from the empty record, a turn filing a claim form and a turn filing a
\* damage image, in either order, end with police_report_asked set and the
\* police-report prompt as reply; from that record a turn filing a police
\* report, or a skip message without file, starts the pipeline in that turn.
C4_CollectThenDecide ==
    [][LET x == sessionFiles["s1"]
           y == sessionFiles'["s1"]
           FilesForm(q, f) == Files(q, f, "claim_form")
           FilesImage(q, f) == Files(q, f, "damage_image")
           Decides(q, f) == Files(q, f, "police_report") \/ SkipMessage(q, f)
           FormOnly(q, f) ==
               y = [EmptySession EXCEPT !.claim_form = f] /\ last'.kind = "need_image"
           ImageOnly(q, f) ==
               y = [EmptySession EXCEPT !.damage_image = f] /\ last'.kind = "need_form"
           ImageSecond(q, f) ==
               y = Awaiting(x.claim_form, f) /\ last'.kind = "police_prompt"
           FormSecond(q, f) ==
               y = Awaiting(f, x.damage_image) /\ last'.kind = "police_prompt"
           Runs(q, f) ==
               last'.kind = "pipeline" /\ \E c \in McpIds : mcp'[c].st = "run"
       IN /\ x = EmptySession =>
                CallsWith(FilesForm, FormOnly) /\ CallsWith(FilesImage, ImageOnly)
          /\ HasForm(x) /\ x = [EmptySession EXCEPT !.claim_form = x.claim_form] =>
                CallsWith(FilesImage, ImageSecond)
          /\ HasImage(x) /\ x = [EmptySession EXCEPT !.damage_image = x.damage_image] =>
                CallsWith(FilesForm, FormSecond)
          /\ HasForm(x) /\ HasImage(x) /\ x = Awaiting(x.claim_form, x.damage_image) =>
                CallsWith(Decides, Runs)]_vars

\* The record awaited the police-report decision, the user skipped it, and the
\* pipeline started in that turn.
C4_Witness ==
    /\ last.kind = "pipeline"
    /\ sessionFiles["s1"] =
          [Awaiting(Pdf, Jpg) EXCEPT !.police_report_skipped = TRUE]
    /\ \E c \in McpIds : mcp[c].st = "run"

\* C5: right after a pipeline run that succeeded, the record of its session is
\* the empty record: slots, flags and stash.
C5_ResetAfterSuccess ==
    last.kind = "decision" => sessionFiles[last.session] = EmptySession

\* A pipeline run has succeeded and its session's record is empty.
C5_Witness ==
    /\ last.kind = "decision"
    /\ acc = Usage
    /\ sessionFiles[last.session] = EmptySession

(***************************************************************************)
(* Properties of classify_agents                                           *)
(***************************************************************************)
\* Position of the first occurrence of a in s (0 when absent).
FirstIndex(s, a) ==
    IF a \in Range(s) THEN CHOOSE i \in 1..Len(s) :
                               s[i] = a /\ \A j \in 1..(i - 1) : s[j] # a
    ELSE 0

\* C3: whatever the query, the file and the semantic classifier's behaviour,
\* classify_agents returns a non-empty list without duplicates whose elements
\* belong to the agent vocabulary, listed in the order they were first seen.
C3_ClassifierOutputWellFormed ==
    cls.st = "returned" =>
        LET res == cls.run.agents
            seen == Candidates(cls.query, cls.file, cls.llm)
        IN /\ res # <<>>
           /\ NoDuplicates(res)
           /\ Range(res) \subseteq VALID_AGENTS
           /\ Cardinality(VALID_AGENTS) = 12
           /\ \A i, j \in 1..Len(res) :
                 (i < j /\ cls.run.llmCalled /\ res # <<"general">>) =>
                     /\ FirstIndex(seen, res[i]) > 0
                     /\ FirstIndex(seen, res[i]) < FirstIndex(seen, res[j])

\* The classifier answered with an unknown name and a repeated name, on top of
\* an image upload; two agents come back in the order first seen.
C3_Witness ==
    /\ cls.st = "returned"
    /\ cls.file = Png
    /\ cls.llm = LlmArray(<<"bogus", "weather", "weather">>)
    /\ cls.run.agents = <<"multimodal", "weather">>

\* C10: a query whose trimmed, lower-cased text starts with "rag " or "rag:"
\* yields exactly [rag], whatever the file, without the semantic classifier
\* or the keyword fallback and without adding tokens; the text "rag" alone
\* does not trigger the override.
C10_RagPrefixOverride ==
    cls.st = "returned" =>
        LET t == Strip(Lower(cls.query.text)) IN
        /\ (StartsWith(t, <<"r", "a", "g", " ">>) \/ StartsWith(t, <<"r", "a", "g", ":">>)) =>
              /\ cls.run.agents = <<"rag">>
              /\ ~cls.run.llmCalled
              /\ ~cls.run.fallbackUsed
              /\ acc = ZeroTokens
        /\ t = <<"r", "a", "g">> => cls.run.llmCalled

\* An upper-case, padded prefix with an image attached and a classifier that
\* would have answered: only [rag] comes back and nothing was counted.
C10_Witness ==
    /\ cls.st = "returned"
    /\ cls.query.text = <<" ", "R", "A", "G", ":", "x">>
    /\ cls.file = Png
    /\ cls.llm = LlmArray(<<"CICP">>)
    /\ cls.run.agents = <<"rag">>
    /\ acc = ZeroTokens

\* C11: in every result of classify_agents, cicp excludes multimodal and rag,
\* and ida excludes multimodal, wherever those names came from.
C11_ExclusiveAgents ==
    cls.st = "returned" =>
        LET res == Range(cls.run.agents) IN
        /\ "cicp" \in res => "multimodal" \notin res /\ "rag" \notin res
        /\ "ida" \in res => "multimodal" \notin res

\* A document was attached (pre-filter: rag), the classifier named cicp and
\* rag; only cicp comes back.
C11_Witness ==
    /\ cls.st = "returned"
    /\ cls.file = Pdf
    /\ cls.llm = LlmArray(<<"CICP", " rag ">>)
    /\ cls.run.agents = <<"cicp">>

\* The result classify_agents builds from the candidates the strategy named.
CleanedUp(f, named) ==
    OrGeneral(DropForIda(DropForCicp(KeepValid(Dedup(FilePrefilter(f) \o named)))))

\* C12: outside the prefix override, when the semantic step fails in any of
\* its three ways the call returns the result built from the keyword
\* fallback; when it returned an array, also an empty one or one of unknown
\* names, the result is built from that array and the fallback is not used.
C12_FallbackOnlyOnFailure ==
    (cls.st = "returned" /\ cls.run.llmCalled) =>
        IF cls.llm.kind \in {"transport", "bad_json", "not_array"}
        THEN /\ cls.run.fallbackUsed
             /\ cls.run.agents = CleanedUp(cls.file, KeywordFallback(cls.query))
        ELSE /\ ~cls.run.fallbackUsed
             /\ cls.run.agents = CleanedUp(cls.file, LlmAgents(cls.llm))

\* The classifier answered with an empty array on a text that hits the rag
\* keywords: the fallback is not consulted and general comes back.
C12_Witness ==
    /\ cls.st = "returned"
    /\ cls.llm = LlmArray(<<>>)
    /\ cls.query.kw = {"rag"}
    /\ cls.file = NoFile
    /\ ~cls.run.fallbackUsed
    /\ cls.run.agents = <<"general">>

(***************************************************************************)
(* Properties of the token accumulator                                     *)
(***************************************************************************)
RECURSIVE SumInputs(_)
SumInputs(S) ==
    IF S = {} THEN 0
    ELSE LET i == CHOOSE x \in S : TRUE
         IN adder[i].usage.input + SumInputs(S \ {i})

RECURSIVE SumOutputs(_)
SumOutputs(S) ==
    IF S = {} THEN 0
    ELSE LET i == CHOOSE x \in S : TRUE
         IN adder[i].usage.output + SumOutputs(S \ {i})

AllAdded == \A i \in Adders : adder[i].pc = "done"

\* C6: after a reset, once all concurrent add_tokens calls have returned, the
\* totals are the sums of what they added, however they were interleaved.
C6_NoLostIncrement ==
    AllAdded =>
        Totals(acc) = [input_tokens |-> SumInputs(Adders),
                       output_tokens |-> SumOutputs(Adders),
                       total_tokens |-> SumInputs(Adders) + SumOutputs(Adders)]

\* All calls carried usage data, one of them took the lock while another was
\* waiting for it, and all have returned.
C6_Witness ==
    /\ AllAdded
    /\ \A i \in Adders : adder[i].usage # ZeroTokens
    /\ \E i \in Adders : adder[i].contended
    /\ acc.input >= NAdders

\* C14: in every reachable session record, police_report_asked is set only if
\* both the claim form and the damage image are filed.
C14_AskedOnlyWithBothFiled ==
    \A s \in Sessions :
        sessionFiles[s].police_report_asked =>
            HasForm(sessionFiles[s]) /\ HasImage(sessionFiles[s])

\* The police report has been asked for, and a later upload has replaced the
\* damage image.
C14_Witness ==
    /\ sessionFiles["s1"].police_report_asked
    /\ sessionFiles["s1"].claim_form = Pdf
    /\ sessionFiles["s1"].damage_image = Png
    /\ last.kind = "police_prompt"

\* The phrase sets that say what an upload is.
KindHints == {"police", "claim", "damage"}

\* In the current state, every turn on session "s1" whose message and file
\* satisfy In ends as Then says of the record it leaves and of its reply.
\* (McpCall writes CollectSession into the record and replies PromptKind.)
TurnsWith(In(_, _), Then(_, _, _)) ==
    \A h \in CicpHints, f \in CicpFiles :
        LET q == MkQuery(<<"x">>, {}, h)
            x == sessionFiles["s1"]
        IN In(q, f) => Then(f, CollectSession(x, q, f), PromptKind(x, q, f))

\* C15: a turn uploading an image with a message that hits none of the three
\* phrase sets only stashes the image and is answered with the
\* disambiguation request, in whatever state the record is: slots and flags
\* stay, no pipeline starts.
C15_AmbiguousImageOnlyStashed ==
    LET x == sessionFiles["s1"]
        AmbiguousImage(q, f) ==
            SuffixLower(f) \in IMAGE_EXTS /\ q.hints \cap KindHints = {}
        OnlyStashed(f, y, kind) ==
            y = [x EXCEPT !.last_ambiguous = f] /\ kind = "ambiguous"
    IN TurnsWith(AmbiguousImage, OnlyStashed)

\* The police report was being asked for when an image came with a message
\* that hit no phrase set: it was stashed, nothing else changed.
C15_Witness ==
    /\ last.kind = "ambiguous"
    /\ sessionFiles["s1"] = [Awaiting(Pdf, Jpg) EXCEPT !.last_ambiguous = Png]

\* slot named by a phrase set
SlotOf(sess, g) ==
    CASE g = "police" -> sess.police_report
      [] g = "claim" -> sess.claim_form
      [] g = "damage" -> sess.damage_image

C17_NoFileTurnChangesNothing ==
    LET x == sessionFiles["s1"]
        NoUpload(q, f) == f = NoFile
        Same(f, y, kind) == y = x /\ kind = "please_upload"
    IN (~HasForm(x) /\ ~HasImage(x)) => TurnsWith(NoUpload, Same)

\* C17 amended: ... every turn without file that does not resolve a stashed
\* image (nothing is stashed, or the message hits none of the three phrase
\* sets) returns the "please upload" text and leaves the whole record unchanged.
C17_NoFileTurnWithoutClarification ==
    LET x == sessionFiles["s1"]
        NoUploadNoClarify(q, f) ==
            f = NoFile /\ (x.last_ambiguous = NoFile \/ q.hints \cap KindHints = {})
        Same(f, y, kind) == y = x /\ kind = "please_upload"
    IN (~HasForm(x) /\ ~HasImage(x)) => TurnsWith(NoUploadNoClarify, Same)

\* Only a police report and a stashed image are held, and a message without
\* file was answered with the "please upload" text.
C17_Witness ==
    /\ last.kind = "please_upload"
    /\ sessionFiles["s1"] =
          [EmptySession EXCEPT !.police_report = Pdf, !.last_ambiguous = Jpg]

\* C18: when a step of the pipeline raises, the reply is the processing-error
\* text and the session records are what they were.
C18_PipelineFailureKeepsState ==
    [][\A c \in McpIds, failed \in PipelineSteps :
          McpReturn(c, failed) =>
              last'.kind = "cicp_error" /\ sessionFiles' = sessionFiles]_vars

(***************************************************************************)
(* Further properties of classify_agents                                   *)
(***************************************************************************)
\* C21: with an image attached (extension in any case) and no rag prefix, the
\* vision agent is the first candidate, ahead of what the semantic step or
\* the fallback names; it is the first element of the result unless cicp or
\* ida is among the valid candidates, and then it is absent.
C21_ImageSeedsVision ==
    LET t == Strip(Lower(cls.query.text)) IN
    (/\ cls.st = "returned"
     /\ cls.file # NoFile
     /\ SuffixLower(cls.file) \in IMAGE_EXTS
     /\ ~StartsWith(t, <<"r", "a", "g", " ">>)
     /\ ~StartsWith(t, <<"r", "a", "g", ":">>)) =>
        LET seen == Candidates(cls.query, cls.file, cls.llm)
            named == Range(seen) \cap VALID_AGENTS
            res == cls.run.agents
        IN /\ seen # <<>> /\ seen[1] = "multimodal"
           /\ \A a \in {"cicp", "ida"} : a \in Range(res) <=> a \in named
           /\ IF "cicp" \in named \/ "ida" \in named
              THEN "multimodal" \notin Range(res)
              ELSE res[1] = "multimodal"

\* An image with an upper-case extension, a classifier reply that is not
\* JSON and a text without keyword hit: the vision agent leads the result.
C21_Witness ==
    /\ cls.st = "returned"
    /\ cls.file = Png
    /\ cls.llm = LlmFail("bad_json")
    /\ cls.query.kw = {}
    /\ cls.run.agents = <<"multimodal", "general">>

(***************************************************************************)
(* Further properties of the claims agent                                  *)
(***************************************************************************)
\* C22 as stated: every turn that leaves both the claim form and the damage
\* image filed, and at whose start the police report had not been asked for,
\* sets police_report_asked and is answered with the police-report prompt; no
\* pipeline starts in it.
C22_BothFiledThenAsked ==
    LET x == sessionFiles["s1"]
        EveryTurn(q, f) == TRUE
        Asked(f, y, kind) ==
            (HasForm(y) /\ HasImage(y) /\ ~x.police_report_asked) =>
                y.police_report_asked /\ kind = "police_prompt"
    IN TurnsWith(EveryTurn, Asked)

\* C22 amended: ... every such turn that also leaves the police-report slot
\* empty sets police_report_asked and is answered with the police-report
\* prompt; no pipeline starts in it.
C22_BothFiledNoReportThenAsked ==
    LET x == sessionFiles["s1"]
        EveryTurn(q, f) == TRUE
        Asked(f, y, kind) ==
            (HasForm(y) /\ HasImage(y) /\ ~HasPolice(y) /\ ~x.police_report_asked) =>
                y.police_report_asked /\ kind = "police_prompt"
    IN TurnsWith(EveryTurn, Asked)

\* A file of unknown extension was filed as the claim form by its message,
\* then an image as the damage photo: the police report is now asked for and
\* no call is in its pipeline.
C22_Witness ==
    /\ last.kind = "police_prompt"
    /\ sessionFiles["s1"] = Awaiting(Bin, Png)
    /\ \A c \in McpIds : mcp[c].st = "idle"

\* C23: police_report_skipped implies police_report_asked in every reachable
\* record; a turn sets it only if it has no file, its message hits the skip
\* phrases and police_report_asked was set at its start; a skip phrase with a
\* file, or before the police report was asked for, leaves it as it was; and
\* the end of a pipeline run never sets it.
C23_SkippedOnlyWhenAsked ==
    LET x == sessionFiles["s1"]
        EveryTurn(q, f) == TRUE
        SetOnlyBySkip(f, y, kind) ==
            (y.police_report_skipped /\ ~x.police_report_skipped) =>
                f = NoFile /\ x.police_report_asked
        SkipHit(q, f) == "skip" \in q.hints
        NoSkipHit(q, f) == "skip" \notin q.hints
        Refused(f, y, kind) ==
            (f # NoFile \/ ~x.police_report_asked) =>
                y.police_report_skipped = x.police_report_skipped
        Unchanged(f, y, kind) == y.police_report_skipped = x.police_report_skipped
    IN /\ \A s \in Sessions :
             sessionFiles[s].police_report_skipped => sessionFiles[s].police_report_asked
       /\ TurnsWith(EveryTurn, SetOnlyBySkip)
       /\ TurnsWith(SkipHit, Refused)
       /\ TurnsWith(NoSkipHit, Unchanged)
       /\ \A failed \in PipelineFailures :
             AfterPipeline(sessionFiles, "s1",
                           PipelineOutcome(failed, TRUE))["s1"].police_report_skipped
                 => x.police_report_skipped

\* The police report was skipped after it had been asked for, the pipeline of
\* that turn failed, and the record still carries both flags.
C23_Witness ==
    /\ last.kind = "cicp_error"
    /\ sessionFiles["s1"] =
          [Awaiting(Pdf, Jpg) EXCEPT !.police_report_skipped = TRUE]

AfterFailedRun(h) ==
    \E m \in LatestAssistant(h) :
        \E i \in 1..Len(m.content.parts) :
            m.content.parts[i].body.kind = "cicp_error"

\* C25: the request that follows a failed pipeline run in its session, with
\* no file and whatever its text, goes to exactly [cicp] without the
\* classifier; the record still holds what the failed run was started on; the
\* claims agent starts the pipeline again in that turn, so that its reply is
\* a decision or the error text, never a prompt.
C25_RetryAfterFailure ==
    \A r \in ReqIds :
        (Routed(r) /\ req[r].file = NoFile /\ AfterFailedRun(req[r].hist)) =>
            LET x == sessionFiles[req[r].session] IN
            /\ req[r].agents = <<"cicp">>
            /\ req[r].classified = <<>>
            /\ req[r].pc = "dispatch" =>
                  /\ HasForm(x) /\ HasImage(x)
                  /\ HasPolice(x) \/ x.police_report_skipped
            /\ req[r].pc = "gather" =>
                  /\ Len(req[r].calls) = 1
                  /\ req[r].calls[1].st = "run" \/
                        req[r].calls[1].raw.out.kind \in {"decision", "cicp_error"}
            /\ Answered(r) =>
                  req[r].response.parts[1].body.kind \in {"decision", "cicp_error"}

\* A claim was collected, its pipeline failed, and the next message, a
\* question about the weather, was answered with the decision.
C25_Witness ==
    \E r \in ReqIds :
        /\ req[r].pc = "done"
        /\ req[r].query = QWeather
        /\ AfterFailedRun(req[r].hist)
        /\ req[r].agents = <<"cicp">>
        /\ req[r].response.parts[1].body.kind = "decision"

(***************************************************************************)
(* Properties of the keyword fallback                                      *)
(***************************************************************************)
\* C26: the keyword fallback returns exactly the agents whose keyword set the
\* text hits, each once, in the order nasa, weather, traffic, sql, viz, rag,
\* cicp, ida, banking, and [general] exactly when no set is hit; when it
\* selects both sql and viz, sql precedes viz in what classify_agents returns.
C26_FallbackInFixedOrder ==
    LET order == <<"nasa", "weather", "traffic", "sql", "viz", "rag", "cicp", "ida",
                   "banking">>
        fb == KeywordFallback(cls.query)
        hit == cls.query.kw
    IN cls.st = "returned" =>
          /\ cls.run.fallbackUsed
          /\ hit = {} <=> fb = <<"general">>
          /\ hit # {} => Range(fb) = hit
          /\ NoDuplicates(fb)
          /\ \A i, j \in 1..Len(fb) :
                i < j => FirstIndex(order, fb[i]) < FirstIndex(order, fb[j])
          /\ {"sql", "viz"} \subseteq hit =>
                /\ FirstIndex(cls.run.agents, "sql") > 0
                /\ FirstIndex(cls.run.agents, "sql") < FirstIndex(cls.run.agents, "viz")

\* The text hit the charting, database and weather keywords and a document was
\* attached: the result lists rag, weather, sql, viz.
C26_Witness ==
    /\ cls.st = "returned"
    /\ cls.query.kw = {"viz", "sql", "weather"}
    /\ cls.file = Pdf
    /\ cls.run.agents = <<"rag", "weather", "sql", "viz">>

(***************************************************************************)
(* Properties of concurrent calls of the claims agent                      *)
(***************************************************************************)
\* The record holds everything a pipeline run needs.
Ready(x) == HasForm(x) /\ HasImage(x) /\ (HasPolice(x) \/ x.police_report_skipped)

\* C27: calls of one session behave as if served one after the other.  Then
\* the call that ends its pipeline with a decision resets the record it was
\* started on: that record still holds the artifacts it decided on (no other
\* call has decided and reset them meanwhile), and it holds no police report
\* that was filed while the pipeline was in flight.
C27_ConcurrentCallsSerial ==
    [][\A c \in McpIds, failed \in {"none"} \cup SwallowedFailures :
          McpReturn(c, failed) =>
              LET x == sessionFiles[mcp[c].session]
              IN Ready(x) /\ (HasPolice(x) => mcp[c].police)]_vars

\* The replies that ask the user for something.
Prompts == {"ambiguous", "please_upload", "need_image", "need_form", "police_prompt"}

\* C28: a call enters the pipeline only with a record that holds the claim
\* form, the damage image and either a police report or the skip flag; a call
\* that leaves any other record returns a prompt: no call enters the pipeline
\* and no model call is made.
C28_PipelineOnlyWhenReady ==
    [][/\ \A c \in McpIds :
             (mcp[c].st = "idle" /\ mcp'[c].st = "run") =>
                 /\ Ready(sessionFiles'[mcp'[c].session])
                 /\ last'.kind = "pipeline"
       /\ (last' # last /\ last'.kind \notin {"decision", "cicp_error"}
                /\ ~Ready(sessionFiles'[last'.session])) =>
             /\ last'.kind \in Prompts
             /\ mcp' = mcp
             /\ acc' = acc]_vars

\* A police report was filed before the claim was complete; the call that
\* completed it is in the pipeline and the police report was never asked for.
C28_Witness ==
    /\ last.kind = "pipeline"
    /\ mcp[1].st = "run"
    /\ sessionFiles["s1"] =
          [EmptySession EXCEPT !.claim_form = Pdf, !.damage_image = Jpg,
                               !.police_report = Bin]

\* C29: in every reachable record, police_report_skipped is set only while
\* the police-report slot is empty.
C29_SkippedHoldsNoReport ==
    \A s \in Sessions :
        sessionFiles[s].police_report_skipped => ~HasPolice(sessionFiles[s])

\* C30: a turn changes the stash only by stashing the image it uploads
\* without a phrase that says what it is, or, having no file, by moving the
\* stashed image into the slot its message names, which empties the stash;
\* the end of a pipeline run changes it only by the reset after a decision.
\* Every other turn, also one that files its upload, leaves the stash as it
\* was, and a stashed image is resolved by each later message without file
\* that hits one of the three phrase sets.
C30_StashChangedOnlyByItsOwnTurns ==
    LET x == sessionFiles["s1"]
        EveryTurn(q, f) == TRUE
        ChangedBy(q, f, y) ==
            \/ /\ SuffixLower(f) \in IMAGE_EXTS /\ q.hints \cap KindHints = {}
               /\ y.last_ambiguous = f
            \/ /\ f = NoFile /\ q.hints \cap KindHints # {}
               /\ y.last_ambiguous = NoFile
               /\ \E g \in KindHints : SlotOf(y, g) = x.last_ambiguous
        Filing(q, f) == f # NoFile /\ (q.hints \cap KindHints # {} \/
                                          SuffixLower(f) \notin IMAGE_EXTS)
        Kept(f, y, kind) == y.last_ambiguous = x.last_ambiguous
        Clarifies(q, f) == f = NoFile /\ q.hints \cap KindHints # {}
        Resolved(f, y, kind) ==
            x.last_ambiguous # NoFile =>
                /\ y.last_ambiguous = NoFile
                /\ \E g \in KindHints : SlotOf(y, g) = x.last_ambiguous
    IN /\ \A h \in CicpHints, f \in CicpFiles :
             LET q == MkQuery(<<"x">>, {}, h)
                 y == CollectSession(x, q, f)
             IN y.last_ambiguous # x.last_ambiguous => ChangedBy(q, f, y)
       /\ TurnsWith(Filing, Kept)
       /\ TurnsWith(Clarifies, Resolved)
       /\ \A failed \in PipelineFailures :
             LET raw == PipelineOutcome(failed, TRUE)
                 z == AfterPipeline(sessionFiles, "s1", raw)["s1"]
             IN z.last_ambiguous # x.last_ambiguous =>
                    raw.out.kind = "decision" /\ z = EmptySession

\* An image is stashed and a claim form is filed, and the latest turn was not
\* the one that stashed the image: the stash outlived it.
C30_Witness ==
    /\ last.kind = "need_image"
    /\ sessionFiles["s1"] =
          [EmptySession EXCEPT !.claim_form = Pdf, !.last_ambiguous = Png]

====
